---- MODULE Spec2Model ----
(***************************************************************************)
(* The amalgamation engine of singleheader/amalgamate.py: the file         *)
(* registry (SimdjsonRepository), the path classifier and the include      *)
(* legality checks (SimdjsonFile), the line-by-line writer (Amalgamator)   *)
(* and the dependencies.h validator.                                       *)
(*                                                                         *)
(* A path is the sequence of its '/'-separated segments.  A line of a      *)
(* source file is a record: toks, its whitespace-separated tokens, and     *)
(* inc, the quoted path of an #include line (NoFile otherwise).  The       *)
(* content of the source tree is an input: a line of a file is chosen the  *)
(* first time the writer reads it and is kept in disk from then on, so a   *)
(* file read twice reads the same lines.                                   *)
(***************************************************************************)
EXTENDS Integers, Sequences, FiniteSets, TLC

VARIABLES
    tree,                             \* which family of source trees is on disk
    relative_roots,                   \* SimdjsonRepository.relative_roots
    pc,                               \* "start", "writing", "validating", "done", "aborted"
    err,                              \* the AssertionError that ended the run, NoErr otherwise
    out,                              \* the lines printed to fid, in order
    disk,                             \* path -> the lines of the file read so far
    closed,                           \* the paths whose end of file has been read
    files,                            \* SimdjsonRepository.files: the keys, in insertion order
    file_root,                        \* SimdjsonFile.root of each record
    includes,                         \* SimdjsonFile.includes
    included_from,                    \* SimdjsonFile.included_from
    editor_only_includes,             \* SimdjsonFile.editor_only_includes
    editor_only_included_from,        \* SimdjsonFile.editor_only_included_from
    processed,                        \* SimdjsonFile.processed: "None", "False", "True"
    builtin_implementation,           \* Amalgamator.builtin_implementation
    implementation,                   \* Amalgamator.implementation
    found_includes,                   \* Amalgamator.found_includes
    found_includes_per_amalgamation,  \* Amalgamator.found_includes_per_amalgamation
    found_generic_includes,           \* Amalgamator.found_generic_includes
    amalgamated_defined,              \* Amalgamator.amalgamated_defined
    editor_only_region,               \* Amalgamator.editor_only_region
    include_stack,                    \* Amalgamator.include_stack
    line_no,                          \* per frame of write_file: the lines its loop has consumed
    line,                             \* the line the innermost loop read last (as read)
    invocation,                       \* which call of Amalgamator.amalgamate is under way (0: none yet)
    run,                              \* how many times the script has been started
    history                           \* the invocations that have ended, as they ended

vars == <<tree, relative_roots, pc, err, out, disk, closed, files, file_root, includes, included_from,
          editor_only_includes, editor_only_included_from, processed,
          builtin_implementation, implementation, found_includes,
          found_includes_per_amalgamation, found_generic_includes,
          amalgamated_defined, editor_only_region, include_stack, line_no, line,
          invocation, run, history>>

-----------------------------------------------------------------------------
(* Bounds *)

\* The number of distinct source lines one run may read from the tree.
MaxReads == 7

\* The number of times the script is run on the tree.
MaxRuns == 2

-----------------------------------------------------------------------------
(* Values *)

None == "None"
NoFile == <<>>
NoLine == [toks |-> <<>>, inc |-> NoFile]

Range(s) == {s[i] : i \in DOMAIN s}

IMPLEMENTATIONS == <<"arm64", "fallback", "haswell", "icelake", "ppc64", "westmere">>
BUILTIN_BEGIN_H == <<"simdjson", "builtin", "begin.h">>
BUILTIN_END_H == <<"simdjson", "builtin", "end.h">>
IMPLEMENTATION_DETECTION_H == <<"simdjson", "implementation_detection.h">>
SIMDJSON_IMPLEMENTATION == "SIMDJSON_IMPLEMENTATION"
SIMDJSON_AMALGAMATED == "SIMDJSON_AMALGAMATED"
SIMDJSON_BUILTIN_IMPLEMENTATION == "SIMDJSON_BUILTIN_IMPLEMENTATION"

\* The paths of the source tree.
SIMDJSON_H == <<"simdjson.h">>
SIMDJSON_CPP == <<"simdjson.cpp">>
BASE_H == <<"simdjson", "base.h">>
GENERIC_DEPENDENCIES_H == <<"simdjson", "generic", "dependencies.h">>
GENERIC_AMALGAMATED_H == <<"simdjson", "generic", "amalgamated.h">>
GENERIC_BASE_H == <<"simdjson", "generic", "base.h">>
ARM64_H == <<"simdjson", "arm64.h">>
HASWELL_H == <<"simdjson", "haswell.h">>
SRC_GENERIC_DEPENDENCIES_H == <<"generic", "dependencies.h">>
STAGE1_BASE_H == <<"generic", "stage1", "base.h">>
STAGE1_DEPENDENCIES_H == <<"generic", "stage1", "dependencies.h">>
ONDEMAND_DEPENDENCIES_H == <<"simdjson", "generic", "ondemand", "dependencies.h">>
MISSING_H == <<"simdjson", "missing.h">>
COMMON_H == <<"simdjson", "common.h">>

\* What os.path.exists finds under each root.  simdjson/missing.h is in no
\* root, simdjson/common.h is in both, and generic/stage1/ has no dependencies.h.
OnDisk ==
    [src |-> {SIMDJSON_CPP, SRC_GENERIC_DEPENDENCIES_H, STAGE1_BASE_H, COMMON_H},
     include |-> {SIMDJSON_H, BASE_H, IMPLEMENTATION_DETECTION_H, GENERIC_DEPENDENCIES_H,
                  GENERIC_AMALGAMATED_H, GENERIC_BASE_H, ARM64_H, HASWELL_H,
                  ONDEMAND_DEPENDENCIES_H, BUILTIN_BEGIN_H, BUILTIN_END_H, COMMON_H}]

Paths == OnDisk.src \cup OnDisk.include
           \cup {MISSING_H, STAGE1_DEPENDENCIES_H}

-----------------------------------------------------------------------------
(* Errors and output lines *)

Err(kind, file, other, stack, set) ==
    [kind |-> kind, file |-> file, other |-> other, stack |-> stack, set |-> set]
NoErr == Err("none", NoFile, NoFile, <<>>, {})

Out(k, file, impl, old, l) ==
    [k |-> k, file |-> file, impl |-> impl, old |-> old, line |-> l]

Fail(s, e) == [s EXCEPT !.err = e]
Failed(s) == s.err.kind # "none"
\* s after Op, unless an assertion has already failed in s.
Then(s, Op(_)) == LET t == s IN IF Failed(t) THEN t ELSE Op(t)

write(s, o) == [s EXCEPT !.out = Append(@, o)]

-----------------------------------------------------------------------------
(* SimdjsonFile: the classifier *)

is_generic(p) ==
    \/ Len(p) > 1 /\ p[1] = "generic"
    \/ Len(p) > 2 /\ p[1] = "simdjson" /\ p[2] = "generic"

include_dir(p) == SubSeq(p, 1, Len(p) - 1)
filename(p) == p[Len(p)]

\* The implementation whose name a path segment begins with.
SegmentImplementation(seg) ==
    CASE seg \in {"arm64", "arm64.h", "arm64.cpp"} -> "arm64"
      [] seg \in {"haswell", "haswell.h", "haswell.cpp"} -> "haswell"
      [] OTHER -> None

\* re.search('(^|/)(arm64|...)'): the leftmost segment that begins with an
\* implementation name.
path_implementation(p) ==
    LET hits == {i \in DOMAIN p : SegmentImplementation(p[i]) # None}
    IN  IF hits = {} THEN None
        ELSE SegmentImplementation(p[CHOOSE i \in hits : \A j \in hits : i <= j])

is_free_dependency_file(p) == filename(p) = "dependencies.h"

\* The path that free_dependency_file looks up in the repository, NoFile when
\* it returns None without a lookup.
free_dependency_path(p) ==
    IF is_free_dependency_file(p) THEN NoFile
    ELSE IF path_implementation(p) # None
    THEN IF include_dir(p) = <<>> THEN SRC_GENERIC_DEPENDENCIES_H
         ELSE IF filename(p) = "ondemand.h" THEN ONDEMAND_DEPENDENCIES_H
         ELSE GENERIC_DEPENDENCIES_H
    ELSE IF is_generic(p) THEN include_dir(p) \o <<"dependencies.h">>
    ELSE NoFile

\* The value of is_free_dependency / is_amalgamated once free_dependency_file
\* has returned.
is_free_dependency(p) == free_dependency_path(p) = NoFile
is_amalgamated(p) == ~is_free_dependency(p)

is_amalgamator(s, p) ==
    IF path_implementation(p) # None
    THEN \/ s.file_root[p] = "src"
         \/ include_dir(p) = <<"simdjson">>
         \/ filename(p) = "ondemand.h"
         \/ filename(p) = "implementation.h"
    ELSE filename(p) = "amalgamated.h"

-----------------------------------------------------------------------------
(* SimdjsonRepository *)

exists(root, p) == p \in OnDisk[root]

\* _included_filename_root without the assertion of line 220: the first root
\* that holds the path.
included_filename_root_first(s, p) ==
    LET found == SelectSeq(s.relative_roots, LAMBDA r : exists(r, p))
    IN  IF Len(found) = 0
        THEN Fail(s, Err("not_found", p, NoFile, <<>>, {}))
        ELSE [s EXCEPT !.files = Append(@, p), !.file_root[p] = found[1]]

\* _included_filename_root: the root that holds the path; the assertions fail
\* when a second root holds it too and when no root does.
included_filename_root(s, p) ==
    LET found == SelectSeq(s.relative_roots, LAMBDA r : exists(r, p))
    IN  IF Len(found) > 1
        THEN Fail(s, Err("exists_in_both", p, NoFile, <<>>, {}))
        ELSE IF Len(found) = 0
        THEN Fail(s, Err("not_found", p, NoFile, <<>>, {}))
        ELSE [s EXCEPT !.files = Append(@, p), !.file_root[p] = found[1]]

\* __getitem__: the record of the path, created on the first lookup.
getitem(s, p) ==
    IF p \in Range(s.files) THEN s ELSE included_filename_root(s, p)

\* The property free_dependency_file: it looks its result up in the repository.
free_dependency_file(s, p) ==
    IF free_dependency_path(p) = NoFile THEN s
    ELSE getitem(s, free_dependency_path(p))

-----------------------------------------------------------------------------
(* SimdjsonFile: the include relations *)

record_include_one_way(s, self, include) ==
    [s EXCEPT !.includes[self] = Append(@, include)]
record_include(s, self, include) ==
    [s EXCEPT !.includes[self] = Append(@, include),
              !.included_from[include] = @ \cup {self}]

add_include(s, self, include) ==
    LET check(s2) ==
            IF is_free_dependency(self)
            THEN IF is_free_dependency(include) \/ is_amalgamator(s2, include)
                 THEN record_include(s2, self, include)
                 ELSE Fail(s2, Err("cannot_include_amalgamated", self, include, <<>>, {}))
            ELSE IF is_free_dependency(include)
                 THEN Fail(s2, Err("cannot_include_free_dependency", self, include, <<>>, {}))
                 ELSE record_include(s2, self, include)
    IN  Then(free_dependency_file(s, self),
             LAMBDA s1 : Then(free_dependency_file(s1, include), check))

record_editor_only_include(s, self, include) ==
    [s EXCEPT !.editor_only_includes[self] = Append(@, include),
              !.editor_only_included_from[include] = @ \cup {self}]

add_editor_only_include(s, self, include) ==
    LET check(s2) ==
            \* a SimdjsonFile is truthy: the second assertion fails only when
            \* self.free_dependency_file is None
            IF is_free_dependency(include) /\ free_dependency_path(self) = NoFile
            THEN Fail(s2, Err("editor_only_free_dependency", self, include, <<>>, {}))
            ELSE record_editor_only_include(s2, self, include)
        first(s1) ==
            IF ~is_amalgamated(self)
            THEN Fail(s1, Err("editor_only_not_amalgamated", self, NoFile, <<>>, {}))
            ELSE Then(free_dependency_file(s1, include), check)
    IN  Then(free_dependency_file(s, self), first)

-----------------------------------------------------------------------------
(* Source lines and the regular expressions of write_file *)

L(toks) == [toks |-> toks, inc |-> NoFile]
Include(p) == [toks |-> <<"#include">>, inc |-> p]

IFNDEF_AMALGAMATED == L(<<"#ifndef", SIMDJSON_AMALGAMATED>>)
ENDIF_AMALGAMATED == L(<<"#endif", "//", SIMDJSON_AMALGAMATED>>)
DEFINE_AMALGAMATED == L(<<"#define", SIMDJSON_AMALGAMATED>>)
UNDEF_AMALGAMATED == L(<<"#undef", SIMDJSON_AMALGAMATED>>)
DefineImplementation(v) == L(<<"#define", SIMDJSON_IMPLEMENTATION, v>>)
UNDEF_IMPLEMENTATION == L(<<"#undef", SIMDJSON_IMPLEMENTATION>>)
USE_IMPLEMENTATION ==
    L(<<"namespace", SIMDJSON_IMPLEMENTATION, "=", SIMDJSON_IMPLEMENTATION, ";">>)
PLAIN_LINE == L(<<"int", "x;">>)

\* ^#ifndef\s+SIMDJSON_AMALGAMATED\s*$
is_ifndef_amalgamated(l) == l.toks = <<"#ifndef", SIMDJSON_AMALGAMATED>>
\* ^#endif\s*//\s*SIMDJSON_AMALGAMATED\s*$
is_end_ignore(l) == l.toks = <<"#endif", "//", SIMDJSON_AMALGAMATED>>
\* ^#include "([^"]*)"
is_included(l) == Len(l.toks) > 0 /\ l.toks[1] = "#include"
\* ^#define\s+SIMDJSON_IMPLEMENTATION\s+(.+)$
is_define_implementation(l) ==
    Len(l.toks) = 3 /\ l.toks[1] = "#define" /\ l.toks[2] = SIMDJSON_IMPLEMENTATION
\* ^#undef\s+SIMDJSON_IMPLEMENTATION\s*$
is_undef_implementation(l) == l.toks = <<"#undef", SIMDJSON_IMPLEMENTATION>>
\* \bSIMDJSON_IMPLEMENTATION\b
uses_implementation(l) == \E i \in DOMAIN l.toks : l.toks[i] = SIMDJSON_IMPLEMENTATION
\* ^#define\s+SIMDJSON_AMALGAMATED\s*$
is_define_amalgamated(l) == l.toks = <<"#define", SIMDJSON_AMALGAMATED>>
\* ^#undef\s+SIMDJSON_AMALGAMATED\s*$
is_undef_amalgamated(l) == l.toks = <<"#undef", SIMDJSON_AMALGAMATED>>

\* re.sub(r'\bSIMDJSON_IMPLEMENTATION\b', implementation, line)
sub_first_implementation(l, v) ==
    LET hits == {i \in DOMAIN l.toks : l.toks[i] = SIMDJSON_IMPLEMENTATION}
        first == CHOOSE i \in hits : \A j \in hits : i <= j
    IN  IF hits = {} THEN l ELSE [l EXCEPT !.toks[first] = v]
sub_implementation(l, v) ==
    [l EXCEPT !.toks = [i \in DOMAIN l.toks |->
                           IF l.toks[i] = SIMDJSON_IMPLEMENTATION THEN v ELSE l.toks[i]]]

-----------------------------------------------------------------------------
(* Amalgamator *)

\* SimdjsonFile defines no __eq__: a record never equals a str (line 286).
file_equals_str(file, path) == FALSE

\* file_to_str: the implementation it names, and the state after its assertion.
file_to_str_implementation(s, file) ==
    IF is_generic(file) /\ is_amalgamated(file) THEN s.implementation ELSE None

file_to_str(s, file) ==
    IF ~is_generic(file) THEN s
    ELSE Then(free_dependency_file(s, file),
              LAMBDA s1 : IF is_amalgamated(file) /\ s1.implementation = None
                          THEN Fail(s1, Err("no_implementation", file, NoFile, <<>>, {}))
                          ELSE s1)

\* Line 280: the file is being written further down the stack.
in_progress_never(s, file) == FALSE
in_progress(s, file) == file \in Range(s.include_stack)

\* write_file, up to the loop over the lines of the file.
write_file_begin(s, file) ==
    LET builtin(s3) ==
            IF ~file_equals_str(file, BUILTIN_BEGIN_H) THEN s3
            ELSE IF s3.implementation # None \/ s3.builtin_implementation
            THEN Fail(s3, Err("builtin_begin", file, NoFile, <<>>, {}))
            ELSE [s3 EXCEPT !.builtin_implementation = TRUE,
                            !.implementation = SIMDJSON_BUILTIN_IMPLEMENTATION]
        region(s4) ==
            IF s4.editor_only_region
            THEN Fail(s4, Err("editor_only_region_open", file, NoFile, <<>>, {}))
            ELSE s4
        begin(s2) ==
            write(s2, Out("begin_file", file, file_to_str_implementation(s2, file),
                          None, NoLine))
    IN  IF in_progress(s, file)
        THEN Fail(s, Err("cyclic_include", file, NoFile, s.include_stack, {}))
        ELSE LET s1 == [s EXCEPT !.include_stack = Append(@, file),
                                 !.line_no = Append(@, 0),
                                 !.processed[file] = "False"]
             IN  Then(Then(Then(file_to_str(s1, file), begin), builtin), region)

\* Line 363: the file ends inside an editor-only region.
unterminated_never(s) == FALSE
unterminated(s) == s.editor_only_region

\* write_file, from the end of the loop.
write_file_end(s, file) ==
    LET end(s2) ==
            write(s2, Out("end_file", file, file_to_str_implementation(s2, file),
                          None, NoLine))
        builtin(s3) ==
            IF file = BUILTIN_BEGIN_H
            THEN IF ~s3.builtin_implementation
                 THEN Fail(s3, Err("builtin_begin", file, NoFile, <<>>, {}))
                 ELSE [s3 EXCEPT !.implementation = SIMDJSON_BUILTIN_IMPLEMENTATION]
            ELSE IF file = BUILTIN_END_H
            THEN IF s3.implementation # None \/ ~s3.builtin_implementation
                 THEN Fail(s3, Err("builtin_end", file, NoFile, <<>>, {}))
                 ELSE [s3 EXCEPT !.implementation = None]
            ELSE s3
        pop(s4) ==
            [s4 EXCEPT !.processed[file] = "True",
                       !.include_stack = SubSeq(@, 1, Len(@) - 1),
                       !.line_no = SubSeq(@, 1, Len(@) - 1)]
    IN  IF unterminated(s)
        THEN Fail(s, Err("ended_without_endif", file, NoFile, <<>>, {}))
        ELSE Then(Then(Then(file_to_str(s, file), end), builtin), pop)

\* Line 261: the once-only test of a file that is not amalgamated.
seen_never(s, file) == FALSE
seen_free_dependency(s, file) == file \in s.found_includes

\* Line 253: the once-per-implementation test of a generic file.
seen_generic_never(s, file) == FALSE
seen_generic(s, file) == <<file, s.implementation>> \in Range(s.found_generic_includes)

maybe_write_file(s, file, including_file, else_line) ==
    LET go(s2) ==
            Then(Then(file_to_str(s2, file),
                      LAMBDA s3 : write(s3, Out("including", file,
                                                file_to_str_implementation(s3, file),
                                                None, else_line))),
                 LAMBDA s4 : write_file_begin(s4, file))
        decide(s1) ==
            IF is_amalgamated(file)
            THEN IF is_generic(file)
                 THEN IF seen_generic(s1, file)
                      THEN Fail(s1, Err("generic_second_time", file, including_file, <<>>, {}))
                      ELSE IF s1.implementation = None
                      THEN Fail(s1, Err("no_implementation", file, NoFile, <<>>, {}))
                      ELSE go([s1 EXCEPT !.found_generic_includes =
                                             Append(@, <<file, s1.implementation>>)])
                 ELSE go([s1 EXCEPT !.found_includes_per_amalgamation = @ \cup {file}])
            ELSE IF seen_free_dependency(s1, file)
                 THEN write(s1, Out("skipped_duplicate", NoFile, None, None, else_line))
                 ELSE go([s1 EXCEPT !.found_includes = @ \cup {file}])
    IN  Then(free_dependency_file(s, file), decide)

\* Line 301: the begin marker comes before any #define SIMDJSON_AMALGAMATED.
flag_missing_never(s) == FALSE
flag_missing(s) == ~s.amalgamated_defined

\* Lines 298-303: the begin marker of an editor-only region.
begin_ignore(s, file, l) ==
    IF ~is_ifndef_amalgamated(l) THEN s
    ELSE Then(free_dependency_file(s, file),
              LAMBDA s1 :
                  IF ~is_amalgamated(file)
                  THEN Fail(s1, Err("ifndef_not_amalgamated", file, NoFile, <<>>, {}))
                  ELSE IF flag_missing(s1)
                  THEN Fail(s1, Err("ifndef_without_define", file, NoFile,
                                    s1.include_stack, {}))
                  ELSE IF s1.editor_only_region
                  THEN Fail(s1, Err("ifndef_twice", file, NoFile, <<>>, {}))
                  ELSE [s1 EXCEPT !.editor_only_region = TRUE])

\* Lines 307-316: a line inside an editor-only region.
ignored_line(s, file, l) ==
    LET s1 == write(s, Out("editor_only", NoFile, None, None, l))
        s2 == IF is_included(l)
              THEN Then(getitem(s1, l.inc),
                        LAMBDA t : add_editor_only_include(t, file, l.inc))
              ELSE s1
    IN  Then(s2, LAMBDA t : IF is_end_ignore(l)
                            THEN [t EXCEPT !.editor_only_region = FALSE]
                            ELSE t)

\* Lines 320-327: an #include line outside an editor-only region.
include_line(s, file, l) ==
    Then(Then(getitem(s, l.inc),
              LAMBDA t : add_include(t, file, l.inc)),
         LAMBDA t : maybe_write_file(t, l.inc, file, l))

\* Line 331: the implementation that was defined before a #define of it.
old_implementation_none(s) == None
old_implementation(s) == s.implementation

\* Lines 329-345: SIMDJSON_IMPLEMENTATION.  The result is the state and the
\* line as it goes on to the rest of the loop body.
implementation_line(s, file, l) ==
    IF is_define_implementation(l)
    THEN [st |-> write([s EXCEPT !.implementation = l.toks[3]],
                       IF old_implementation(s) = None
                       THEN Out("defining_implementation", NoFile, l.toks[3], None, NoLine)
                       ELSE Out("redefining_implementation", NoFile, l.toks[3],
                                old_implementation(s), NoLine)),
          line |-> l]
    ELSE IF is_undef_implementation(l)
    THEN [st |-> [write(s, Out("undefining_implementation", NoFile, None,
                               s.implementation, NoLine))
                    EXCEPT !.implementation = None],
          line |-> l]
    ELSE IF uses_implementation(l) /\ file # IMPLEMENTATION_DETECTION_H
    THEN IF s.implementation = None
         THEN [st |-> Fail(s, Err("use_while_not_defined", file, NoFile, <<>>, {})),
               line |-> l]
         ELSE [st |-> s, line |-> sub_implementation(l, s.implementation)]
    ELSE [st |-> s, line |-> l]

\* Line 353: what a define of SIMDJSON_AMALGAMATED clears.
cleared_on_define_all(s) ==
    [s EXCEPT !.found_includes_per_amalgamation = {}, !.found_includes = {}]
cleared_on_define(s) == [s EXCEPT !.found_includes_per_amalgamation = {}]

\* Line 351: SIMDJSON_AMALGAMATED is defined already.
redefines_never(s) == FALSE
redefines(s) == s.amalgamated_defined

\* Lines 347-359: SIMDJSON_AMALGAMATED.
amalgamated_line(s, file, l) ==
    IF is_define_amalgamated(l)
    THEN Then(free_dependency_file(s, file),
              LAMBDA s1 :
                  IF is_amalgamated(file)
                  THEN Fail(s1, Err("defined_in_amalgamated_file", file, NoFile, <<>>, {}))
                  ELSE IF redefines(s1)
                  THEN Fail(s1, Err("redefines_amalgamated", file, NoFile, <<>>, {}))
                  ELSE write(cleared_on_define([s1 EXCEPT !.amalgamated_defined = TRUE]),
                             Out("defining_amalgamated", NoFile, None, None, NoLine)))
    ELSE IF is_undef_amalgamated(l)
    THEN Then(free_dependency_file(s, file),
              LAMBDA s1 :
                  IF is_amalgamated(file)
                  THEN Fail(s1, Err("undefined_in_amalgamated_file", file, NoFile, <<>>, {}))
                  ELSE IF ~s1.amalgamated_defined
                  THEN Fail(s1, Err("undefines_without_defining", file, NoFile, <<>>, {}))
                  ELSE [write(s1, Out("undefining_amalgamated", NoFile, None, None, NoLine))
                          EXCEPT !.amalgamated_defined = FALSE])
    ELSE s

\* Lines 318 and 329-361: a line outside an editor-only region that is no #include.
other_line(s, file, l) ==
    IF is_end_ignore(l)
    THEN Fail(s, Err("endif_without_ifndef", file, NoFile, <<>>, {}))
    ELSE LET r == implementation_line(s, file, l)
         IN  Then(Then(r.st, LAMBDA t : amalgamated_line(t, file, r.line)),
                  LAMBDA t : write(t, Out("line", NoFile, None, None, r.line)))

\* Line 307: the line is inside an editor-only region.
ignoring_never(s) == FALSE
ignoring(s) == s.editor_only_region

\* The body of the loop of write_file for one line.
write_file_line(s, file, l) ==
    Then(begin_ignore(s, file, l),
         LAMBDA s1 : IF ignoring(s1) THEN ignored_line(s1, file, l)
                     ELSE IF is_included(l) THEN include_line(s1, file, l)
                     ELSE other_line(s1, file, l))

-----------------------------------------------------------------------------
(* The validator *)

\* The (file, editor-only include) pairs that validate_free_dependency_file
\* visits for the dependencies.h file self, in the order of its loops.
RECURSIVE editor_only_pairs(_, _, _)
editor_only_pairs(s, self, i) ==
    IF i > Len(s.files) THEN <<>>
    ELSE LET f == s.files[i]
             eo == s.editor_only_includes[f]
             mine == IF free_dependency_path(f) = self
                     THEN SelectSeq([j \in DOMAIN eo |-> <<f, eo[j]>>],
                                    LAMBDA pr : is_free_dependency(pr[2]))
                     ELSE <<>>
         IN  mine \o editor_only_pairs(s, self, i + 1)

\* The pairs whose assertion at line 183 fails.
missing_pairs_none(s, self) == <<>>
missing_pairs(s, self) ==
    SelectSeq(editor_only_pairs(s, self, 1),
              LAMBDA pr : pr[2] \notin Range(s.includes[self]))

extra_include_set_none(s, self) == {}
extra_include_set(s, self) ==
    Range(s.includes[self])
        \ {pr[2] : pr \in Range(editor_only_pairs(s, self, 1))}

\* The files the message of the failed assertion at line 183 names.
missing_reported(s, self) == {missing_pairs(s, self)[1][2]}

validate_free_dependency_file(s, self) ==
    IF ~is_free_dependency_file(self) THEN s
    ELSE IF missing_pairs(s, self) # <<>>
    THEN Fail(s, Err("missing_dependency", self, missing_pairs(s, self)[1][1],
                     <<>>, missing_reported(s, self)))
    ELSE IF extra_include_set(s, self) # {}
    THEN Fail(s, Err("unnecessarily_includes", self, NoFile, <<>>,
                     extra_include_set(s, self)))
    ELSE s

RECURSIVE validate_from(_, _)
validate_from(s, i) ==
    IF i > Len(s.files) THEN s
    ELSE Then(validate_free_dependency_file(s, s.files[i]),
              LAMBDA t : validate_from(t, i + 1))

validate_free_dependency_files(s) == validate_from(s, 1)

-----------------------------------------------------------------------------
(* The source tree: the lines a file of the tree may hold *)

\* The families of trees.  In each, a file holds any sequence of the lines of
\* its alphabet; a file with no alphabet is empty.
Trees == {"layers", "variant", "region", "validate", "aggregators", "window", "builtin"}

Alphabet(t, p) ==
    CASE t = "layers" /\ p = SIMDJSON_CPP ->
            {Include(BASE_H), Include(ARM64_H), Include(GENERIC_BASE_H)}
      [] t = "layers" /\ p = BASE_H ->
            {Include(SIMDJSON_CPP), Include(MISSING_H), Include(COMMON_H)}
      [] t = "layers" /\ p = ARM64_H ->
            {Include(HASWELL_H), Include(BASE_H)}
      [] t = "layers" /\ p = HASWELL_H ->
            {Include(ARM64_H), Include(STAGE1_BASE_H)}
      [] t = "variant" /\ p = SIMDJSON_CPP ->
            {DefineImplementation("arm64"), Include(GENERIC_AMALGAMATED_H),
             Include(IMPLEMENTATION_DETECTION_H)}
      [] t = "variant" /\ p = GENERIC_AMALGAMATED_H ->
            {DefineImplementation("haswell"), UNDEF_IMPLEMENTATION, USE_IMPLEMENTATION,
             Include(GENERIC_BASE_H)}
      [] t = "variant" /\ p = GENERIC_BASE_H ->
            {Include(GENERIC_AMALGAMATED_H)}
      [] t = "variant" /\ p = IMPLEMENTATION_DETECTION_H ->
            {USE_IMPLEMENTATION}
      [] t = "region" /\ p = SIMDJSON_H ->
            {DEFINE_AMALGAMATED, UNDEF_AMALGAMATED, Include(ARM64_H)}
      [] t = "region" /\ p = ARM64_H ->
            {IFNDEF_AMALGAMATED, ENDIF_AMALGAMATED, UNDEF_AMALGAMATED,
             DefineImplementation("haswell"), USE_IMPLEMENTATION, Include(BASE_H)}
      [] t = "validate" /\ p = SIMDJSON_H ->
            {DEFINE_AMALGAMATED, Include(GENERIC_DEPENDENCIES_H), Include(ARM64_H)}
      [] t = "validate" /\ p = GENERIC_DEPENDENCIES_H ->
            {Include(BASE_H)}
      [] t = "validate" /\ p = ARM64_H ->
            {IFNDEF_AMALGAMATED, ENDIF_AMALGAMATED, Include(BASE_H),
             Include(IMPLEMENTATION_DETECTION_H)}
      [] t = "aggregators" /\ p = SIMDJSON_H ->
            {DEFINE_AMALGAMATED, Include(ONDEMAND_DEPENDENCIES_H)}
      [] t = "aggregators" /\ p = ONDEMAND_DEPENDENCIES_H ->
            {Include(ARM64_H)}
      [] t = "aggregators" /\ p = ARM64_H ->
            {IFNDEF_AMALGAMATED, ENDIF_AMALGAMATED, Include(BASE_H)}
      [] t = "window" /\ p = SIMDJSON_H ->
            {DEFINE_AMALGAMATED, UNDEF_AMALGAMATED, Include(BASE_H)}
      [] t = "window" /\ p = BASE_H ->
            {IFNDEF_AMALGAMATED, PLAIN_LINE}
      [] t = "builtin" /\ p = SIMDJSON_H ->
            {Include(BUILTIN_BEGIN_H), Include(BUILTIN_END_H)}
      [] t = "builtin" /\ p = BUILTIN_BEGIN_H ->
            {PLAIN_LINE}
      [] OTHER -> {}

Lines == UNION {Alphabet(t, p) : t \in Trees, p \in Paths}

-----------------------------------------------------------------------------
(* The run *)

\* The calls of Amalgamator.amalgamate at lines 401 and 402.
Calls == <<[file |-> SIMDJSON_H, roots |-> <<"include">>],
          [file |-> SIMDJSON_CPP, roots |-> <<"src", "include">>]>>

State ==
    [relative_roots |-> relative_roots,
     err |-> err, out |-> out, files |-> files, file_root |-> file_root,
     includes |-> includes, included_from |-> included_from,
     editor_only_includes |-> editor_only_includes,
     editor_only_included_from |-> editor_only_included_from,
     processed |-> processed, builtin_implementation |-> builtin_implementation,
     implementation |-> implementation, found_includes |-> found_includes,
     found_includes_per_amalgamation |-> found_includes_per_amalgamation,
     found_generic_includes |-> found_generic_includes,
     amalgamated_defined |-> amalgamated_defined,
     editor_only_region |-> editor_only_region,
     include_stack |-> include_stack, line_no |-> line_no]

Commit(s) ==
    /\ relative_roots' = s.relative_roots
    /\ err' = s.err
    /\ out' = s.out
    /\ files' = s.files
    /\ file_root' = s.file_root
    /\ includes' = s.includes
    /\ included_from' = s.included_from
    /\ editor_only_includes' = s.editor_only_includes
    /\ editor_only_included_from' = s.editor_only_included_from
    /\ processed' = s.processed
    /\ builtin_implementation' = s.builtin_implementation
    /\ implementation' = s.implementation
    /\ found_includes' = s.found_includes
    /\ found_includes_per_amalgamation' = s.found_includes_per_amalgamation
    /\ found_generic_includes' = s.found_generic_includes
    /\ amalgamated_defined' = s.amalgamated_defined
    /\ editor_only_region' = s.editor_only_region
    /\ include_stack' = s.include_stack
    /\ line_no' = s.line_no

\* Where the run stands once a step has left the state s.
AfterStep(s) ==
    IF Failed(s) THEN "aborted"
    ELSE IF s.include_stack = <<>> THEN "validating"
    ELSE "writing"

Init ==
    /\ tree \in Trees
    /\ relative_roots = <<>>
    /\ pc = "start"
    /\ err = NoErr
    /\ out = <<>>
    /\ disk = [p \in Paths |-> <<>>]
    /\ closed = {}
    /\ files = <<>>
    /\ file_root = [p \in Paths |-> None]
    /\ includes = [p \in Paths |-> <<>>]
    /\ included_from = [p \in Paths |-> {}]
    /\ editor_only_includes = [p \in Paths |-> <<>>]
    /\ editor_only_included_from = [p \in Paths |-> {}]
    /\ processed = [p \in Paths |-> None]
    /\ builtin_implementation = FALSE
    /\ implementation = None
    /\ found_includes = {}
    /\ found_includes_per_amalgamation = {}
    /\ found_generic_includes = <<>>
    /\ amalgamated_defined = FALSE
    /\ editor_only_region = FALSE
    /\ include_stack = <<>>
    /\ line_no = <<>>
    /\ line = NoLine
    /\ invocation = 0
    /\ run = 1
    /\ history = <<>>

\* The state before anything was constructed: no repository, no Amalgamator.
Blank ==
    [relative_roots |-> <<>>,
     err |-> NoErr, out |-> <<>>, files |-> <<>>,
     file_root |-> [p \in Paths |-> None],
     includes |-> [p \in Paths |-> <<>>],
     included_from |-> [p \in Paths |-> {}],
     editor_only_includes |-> [p \in Paths |-> <<>>],
     editor_only_included_from |-> [p \in Paths |-> {}],
     processed |-> [p \in Paths |-> None],
     builtin_implementation |-> FALSE,
     implementation |-> None, found_includes |-> {},
     found_includes_per_amalgamation |-> {},
     found_generic_includes |-> <<>>,
     amalgamated_defined |-> FALSE,
     editor_only_region |-> FALSE,
     include_stack |-> <<>>, line_no |-> <<>>]

\* cls(fid, SimdjsonRepository(PROJECTPATH, roots)) on a newly opened fid,
\* called in the state s: nothing of s is kept.
new_amalgamator_shared(s, roots) ==
    [Blank EXCEPT !.relative_roots = roots,
                  !.found_includes = s.found_includes,
                  !.amalgamated_defined = s.amalgamated_defined]
new_amalgamator(s, roots) == [Blank EXCEPT !.relative_roots = roots]

\* How the invocation under way stands.
Finished ==
    [run |-> run, invocation |-> invocation, pc |-> pc, out |-> out, err |-> err]

\* Amalgamator.amalgamate up to the first line of the root file: the header
\* line, the repository, the record of the root file and maybe_write_file on
\* it.  The script makes its second call once the first has returned.
amalgamate ==
    /\ pc \in {"start", "done"}
    /\ invocation < Len(Calls)
    /\ LET call == Calls[invocation + 1]
           s1 == write(new_amalgamator(State, call.roots),
                       Out("auto_generated", NoFile, None, None, NoLine))
           s2 == Then(getitem(s1, call.file),
                      LAMBDA t : maybe_write_file(t, call.file, NoFile, NoLine))
       IN  Commit(s2) /\ pc' = AfterStep(s2)
    /\ invocation' = invocation + 1
    /\ history' = IF pc = "done" THEN Append(history, Finished) ELSE history
    /\ UNCHANGED <<tree, disk, closed, line, run>>

\* The script is run again on the unchanged tree, after a run of it has ended.
rerun ==
    /\ run < MaxRuns
    /\ pc = "aborted" \/ (pc = "done" /\ invocation = Len(Calls))
    /\ Commit(Blank) /\ pc' = "start"
    /\ invocation' = 0
    /\ run' = run + 1
    /\ history' = Append(history, Finished)
    /\ line' = NoLine
    /\ UNCHANGED <<tree, disk, closed>>

Top == include_stack[Len(include_stack)]
NextLineNo == line_no[Len(line_no)] + 1

RECURSIVE LinesRead(_)
LinesRead(i) == IF i > Len(files) THEN 0 ELSE Len(disk[files[i]]) + LinesRead(i + 1)

\* The loop of write_file reads l: a line the file is already known to hold,
\* or a line of the tree that no read has fixed yet.
Reads(l) ==
    /\ pc = "writing"
    /\ \/ NextLineNo <= Len(disk[Top]) /\ l = disk[Top][NextLineNo]
          /\ UNCHANGED disk
       \/ NextLineNo > Len(disk[Top]) /\ Top \notin closed
          /\ LinesRead(1) < MaxReads
          /\ l \in Alphabet(tree, Top)
          /\ disk' = [disk EXCEPT ![Top] = Append(@, l)]
    /\ line' = l
    /\ UNCHANGED <<tree, closed, invocation, run, history>>

\* One turn of the loop of write_file.
Turn(l) ==
    LET s1 == [State EXCEPT !.line_no[Len(line_no)] = @ + 1]
        s2 == write_file_line(s1, Top, l)
    IN  Commit(s2) /\ pc' = AfterStep(s2)

\* A line inside an editor-only region, its begin marker included.
write_file_editor_only ==
    \E l \in Lines :
        /\ Reads(l)
        /\ editor_only_region \/ is_ifndef_amalgamated(l)
        /\ Turn(l)

\* An #include line outside an editor-only region.
write_file_include ==
    \E l \in Lines :
        /\ Reads(l)
        /\ ~editor_only_region /\ ~is_ifndef_amalgamated(l) /\ is_included(l)
        /\ Turn(l)

\* Any other line outside an editor-only region.
write_file_other ==
    \E l \in Lines :
        /\ Reads(l)
        /\ ~editor_only_region /\ ~is_ifndef_amalgamated(l) /\ ~is_included(l)
        /\ Turn(l)

\* The end of the file on top of the include stack.
write_file_eof ==
    /\ pc = "writing"
    /\ NextLineNo > Len(disk[Top])
    /\ closed' = closed \cup {Top}
    /\ LET s2 == write_file_end(State, Top)
       IN  Commit(s2) /\ pc' = AfterStep(s2)
    /\ UNCHANGED <<tree, disk, line, invocation, run, history>>

\* repository.validate_free_dependency_files() and fid.close().
validate ==
    /\ pc = "validating"
    /\ LET s2 == validate_free_dependency_files(State)
       IN  Commit(s2) /\ pc' = IF Failed(s2) THEN "aborted" ELSE "done"
    /\ UNCHANGED <<tree, disk, closed, line, invocation, run, history>>

Next ==
    \/ amalgamate
    \/ write_file_editor_only
    \/ write_file_include
    \/ write_file_other
    \/ write_file_eof
    \/ validate

Spec == Init /\ [][Next]_vars

\* The script run again on the same tree, for the trees of RerunTrees.
RerunTrees == {"aggregators", "window", "builtin"}
InitRerun == Init /\ tree \in RerunTrees
NextRerun == Next \/ rerun
SpecRerun == InitRerun /\ [][NextRerun]_vars

-----------------------------------------------------------------------------
(* What the claims speak of *)

Last(s) == s[Len(s)]
NoDuplicates(s) == \A i, j \in DOMAIN s : s[i] = s[j] => i = j

\* The file the run was started on.
RootFile == files[1]

\* Where the output holds the begin / end annotation of F, and how often an
\* include of F was replaced by a 'skipped duplicate' annotation.
Begins(F) == {i \in DOMAIN out : out[i].k = "begin_file" /\ out[i].file = F}
Ends(F) == {i \in DOMAIN out : out[i].k = "end_file" /\ out[i].file = F}
Skips(F) == {i \in DOMAIN out : out[i].k = "skipped_duplicate" /\ out[i].line.inc = F}

\* The entries of the includes lists that name F.
Occurrences(F) ==
    UNION {{<<p, i>> : i \in {j \in DOMAIN includes[p] : includes[p][j] = F}} : p \in Paths}

\* A has included B and B has included A, both outside editor-only regions.
IncludeCycle(A, B) ==
    A # B /\ B \in Range(includes[A]) /\ A \in Range(includes[B])

\* An amalgamated file that is not generic: its path names an implementation.
VariantSpecific(p) == is_amalgamated(p) /\ ~is_generic(p)

\* The paths of each kind; the kind of a file is a function of its path alone.
VariantSpecificPaths == {p \in Paths : VariantSpecific(p)}
FreeDependencyPaths == {p \in Paths : is_free_dependency(p)}
AmalgamatedGenericPaths == {p \in Paths : is_generic(p) /\ is_amalgamated(p)}

\* The writer has just entered G: no line of it is read yet.
Entered(G) ==
    pc = "writing" /\ include_stack # <<>> /\ Top = G /\ Last(line_no) = 0

\* The step reads a line in the loop of write_file: line' is that line and
\* Top (unprimed) the file it is read from.
ReadsLine ==
    /\ pc = "writing"
    /\ Len(line_no') >= Len(line_no)
    /\ line_no'[Len(line_no)] = line_no[Len(line_no)] + 1

-----------------------------------------------------------------------------
(* C1 *)

CyclicIncludeError ==
    /\ pc = "aborted"
    /\ err.kind = "cyclic_include"
    /\ err.stack = include_stack
    /\ err.file \in Range(include_stack)
    /\ Ends(RootFile) = {}

\* C1, as claimed: whatever kind of file A and B are, once A has included B
\* and B has included A the run has aborted with a cyclic-include error that
\* names the include stack (A and B on it) and the re-entered file, and the
\* end-file annotation of the root file is not in the output.
C1_AnyCycleAborts ==
    \A A, B \in Paths :
        IncludeCycle(A, B) => CyclicIncludeError /\ {A, B} \subseteq Range(err.stack)

\* C1, amended: the cyclic-include abort is that of a cycle of two
\* variant-specific files; no file is ever entered while it is in progress;
\* a cyclic-include error always names an amalgamated file that is on the
\* stack it reports and leaves the root file without its end-file annotation.
C1_VariantCycleAborts ==
    /\ \A A, B \in VariantSpecificPaths :
           IncludeCycle(A, B)
               => CyclicIncludeError /\ {A, B} \subseteq Range(err.stack)
    /\ NoDuplicates(include_stack)
    /\ err.kind = "cyclic_include" => CyclicIncludeError /\ is_amalgamated(err.file)

C1_Witness ==
    /\ CyclicIncludeError
    /\ \E A, B \in Paths :
           IncludeCycle(A, B) /\ VariantSpecific(A) /\ VariantSpecific(B)

-----------------------------------------------------------------------------
(* C2 *)

-----------------------------------------------------------------------------
(* C3 *)

-----------------------------------------------------------------------------
(* C4 *)

\* The traversal completed and the validator has run.
ValidationRan ==
    pc \in {"done", "aborted"} /\ files # <<>> /\ processed[RootFile] = "True"

Aggregators == {D \in Range(files) : is_free_dependency_file(D)}

\* The free-dependency files that files governed by D include editor-only.
RequiredFiles(D) ==
    {R \in Paths : is_free_dependency(R)
                   /\ \E f \in Range(files) :
                          free_dependency_path(f) = D
                          /\ R \in Range(editor_only_includes[f])}
MissingFiles(D) == RequiredFiles(D) \ Range(includes[D])
ExtraFiles(D) == Range(includes[D]) \ RequiredFiles(D)

Position(D) == CHOOSE i \in DOMAIN files : files[i] = D

\* D fails the validator's checks and no dependencies.h before it in the
\* registry does.
FirstToFail(D) ==
    /\ MissingFiles(D) # {} \/ ExtraFiles(D) # {}
    /\ \A E \in Aggregators :
           Position(E) < Position(D) => MissingFiles(E) = {} /\ ExtraFiles(E) = {}

MissingDependencyError(D, R) ==
    pc = "aborted" /\ err.kind = "missing_dependency" /\ err.file = D /\ err.set = {R}

\* C4, as claimed: validation succeeds only if no dependencies.h of the
\* registry misses a required file, and when a dependencies.h D misses
\* exactly one required file R the run fails with the missing-dependency
\* error that names R and D.
C4_OneMissingIsReported ==
    /\ pc = "done" => \A D \in Aggregators : MissingFiles(D) = {}
    /\ \A D \in Aggregators : \A R \in Paths :
           ValidationRan /\ MissingFiles(D) = {R} => MissingDependencyError(D, R)

\* C4, amended: the same, for the first dependencies.h of the registry that
\* fails the validator's checks.
C4_FirstMissingIsReported ==
    /\ pc = "done" => \A D \in Aggregators : MissingFiles(D) = {}
    /\ ValidationRan =>
           \A D \in Aggregators :
               Cardinality(MissingFiles(D)) = 1 /\ FirstToFail(D)
                   => \A R \in MissingFiles(D) : MissingDependencyError(D, R)

C4_Witness ==
    \E D \in Aggregators : \E R \in Paths :
        ValidationRan /\ MissingFiles(D) = {R} /\ MissingDependencyError(D, R)

\* A run that passed the validator with a dependencies.h that had something
\* to include.
C4_PassesWithRequiredFiles ==
    pc = "done" /\ \E D \in Aggregators : RequiredFiles(D) # {}

-----------------------------------------------------------------------------
(* C5 *)

Defines(n) == Cardinality({i \in 1..n : out[i].k = "defining_amalgamated"})
Undefines(n) == Cardinality({i \in 1..n : out[i].k = "undefining_amalgamated"})

\* The annotations of the defines and undefs that took effect alternate,
\* a define first, and the flag is set exactly after a define.
FlagAlternates ==
    /\ \A n \in 0..Len(out) : Defines(n) - Undefines(n) \in {0, 1}
    /\ amalgamated_defined <=> Defines(Len(out)) = Undefines(Len(out)) + 1

\* The step reads a define / an undef of the flag outside an editor-only region.
ReadsDefineAmalgamated ==
    ReadsLine /\ ~editor_only_region /\ is_define_amalgamated(line')
ReadsUndefAmalgamated ==
    ReadsLine /\ ~editor_only_region /\ is_undef_amalgamated(line')

AbortsKeepingFlag ==
    pc' = "aborted" /\ amalgamated_defined' = amalgamated_defined

\* What the claim says of a define and of an undef of the flag.
DefineToggles ==
    ReadsDefineAmalgamated =>
        IF amalgamated_defined THEN AbortsKeepingFlag
        ELSE pc' = "writing" /\ amalgamated_defined'
UndefToggles ==
    ReadsUndefAmalgamated =>
        IF ~amalgamated_defined THEN AbortsKeepingFlag
        ELSE pc' = "writing" /\ ~amalgamated_defined'

\* The same, with the file the directive stands in taken into account.
DefineTogglesOutsideAmalgamatedFiles ==
    ReadsDefineAmalgamated =>
        IF is_amalgamated(Top) \/ amalgamated_defined THEN AbortsKeepingFlag
        ELSE pc' = "writing" /\ amalgamated_defined'
UndefTogglesOutsideAmalgamatedFiles ==
    ReadsUndefAmalgamated =>
        IF is_amalgamated(Top) \/ ~amalgamated_defined THEN AbortsKeepingFlag
        ELSE pc' = "writing" /\ ~amalgamated_defined'

\* C5, as claimed: a define aborts when the flag is set and sets it when it
\* is clear, an undef aborts when the flag is clear and clears it when it is
\* set, and an abort leaves the flag as it was.
C5_FlagToggles ==
    [][DefineToggles /\ UndefToggles]_vars

\* C5, amended: the same in a file that is not amalgamated; in an amalgamated
\* file a define and an undef both abort the run, whatever the flag, and
\* leave the flag as it was.  The defines and undefs that took effect
\* alternate over the whole run, a define first.
C5_FlagTogglesOutsideAmalgamatedFiles ==
    /\ []FlagAlternates
    /\ [][DefineTogglesOutsideAmalgamatedFiles
              /\ UndefTogglesOutsideAmalgamatedFiles]_vars

C5_Witness ==
    amalgamated_defined /\ Defines(Len(out)) = 2 /\ Undefines(Len(out)) = 1

-----------------------------------------------------------------------------
(* C6 *)

\* The step reads, outside an editor-only region, a line that uses the
\* placeholder and is no directive the writer handles before it.
ReadsUseOfImplementation ==
    /\ ReadsLine /\ ~editor_only_region
    /\ ~is_ifndef_amalgamated(line') /\ ~is_end_ignore(line') /\ ~is_included(line')
    /\ ~is_define_implementation(line') /\ ~is_undef_implementation(line')
    /\ uses_implementation(line')

\* l with every token that is the placeholder replaced by v.
EveryOccurrenceReplaced(l, v) ==
    [toks |-> [i \in DOMAIN l.toks |->
                  IF l.toks[i] = SIMDJSON_IMPLEMENTATION THEN v ELSE l.toks[i]],
     inc |-> l.inc]

Emits(l) == pc' = "writing" /\ out' = Append(out, Out("line", NoFile, None, None, l))

\* C6: such a line is emitted unmodified in the variant-detection file, aborts
\* the run when no variant is active, and is otherwise emitted with every
\* occurrence of the placeholder replaced by the active variant.
C6_PlaceholderSubstituted ==
    [][ReadsUseOfImplementation =>
           IF Top = IMPLEMENTATION_DETECTION_H THEN Emits(line')
           ELSE IF implementation = None
           THEN pc' = "aborted" /\ err'.kind = "use_while_not_defined" /\ out' = out
           ELSE Emits(EveryOccurrenceReplaced(line', implementation))]_vars

C6_Witness ==
    /\ pc = "writing" /\ out # <<>> /\ implementation # None
    /\ Cardinality({i \in DOMAIN line.toks : line.toks[i] = SIMDJSON_IMPLEMENTATION}) > 1
    /\ Last(out) = Out("line", NoFile, None, None,
                       EveryOccurrenceReplaced(line, implementation))

-----------------------------------------------------------------------------
(* C7 *)

\* Exactly one configured root holds the path: the repository has a record of it.
Resolves(p) == Cardinality({i \in DOMAIN relative_roots : exists(relative_roots[i], p)}) = 1

\* The tier separation of record_include, on the paths and the root of 'to'.
IllegalInclude(from, to, root) ==
    IF is_free_dependency(from)
    THEN ~is_free_dependency(to) /\ ~is_amalgamator([file_root |-> (to :> root)], to)
    ELSE is_free_dependency(to)

\* C7: an include line outside an editor-only region whose target has a
\* record either fails with the layering error that names both files and
\* leaves includes and included_from alone, when the pair is illegal, or
\* appends the target to from.includes and adds from to its included_from.
C7_RecordInclude ==
    [][ReadsLine /\ ~editor_only_region /\ ~is_ifndef_amalgamated(line')
           /\ is_included(line') /\ Resolves(line'.inc) =>
           IF IllegalInclude(Top, line'.inc, file_root'[line'.inc])
           THEN /\ pc' = "aborted"
                /\ err'.kind \in {"cannot_include_amalgamated", "cannot_include_free_dependency"}
                /\ err'.file = Top /\ err'.other = line'.inc
                /\ includes' = includes /\ included_from' = included_from
           ELSE /\ includes'[Top] = Append(includes[Top], line'.inc)
                /\ included_from'[line'.inc] = included_from[line'.inc] \cup {Top}]_vars

-----------------------------------------------------------------------------
(* C8 *)

\* The step reads a line of an editor-only region, from its begin marker to
\* its end marker.
ReadsIgnoredLine ==
    ReadsLine /\ (editor_only_region \/ is_ifndef_amalgamated(line'))

\* C8: a line of an editor-only region leaves the active variant, the flag,
\* the dedup sets, the include stack and the normal include relations alone;
\* when the run goes on, the line has been emitted as one 'amalgamation
\* skipped (editor-only)' comment and nothing else, and an include line has
\* been recorded in the editor-only relations.
C8_EditorOnlyRegion ==
    [][ReadsIgnoredLine =>
           /\ UNCHANGED <<implementation, amalgamated_defined, found_includes,
                          found_includes_per_amalgamation, found_generic_includes,
                          include_stack, includes, included_from>>
           /\ out' \in {out, Append(out, Out("editor_only", NoFile, None, None, line'))}
           /\ pc' = "writing" =>
                  /\ out' = Append(out, Out("editor_only", NoFile, None, None, line'))
                  /\ is_included(line') =>
                         /\ editor_only_includes'[Top]
                                = Append(editor_only_includes[Top], line'.inc)
                         /\ editor_only_included_from'[line'.inc]
                                = editor_only_included_from[line'.inc] \cup {Top}
                  /\ ~is_included(line') =>
                         UNCHANGED <<editor_only_includes, editor_only_included_from>>]_vars

\* A region has been read that held an undef of the flag, a use of the
\* placeholder and an include; the flag is still defined, no variant is
\* active and the included file was not expanded.
C8_Witness ==
    /\ pc = "writing" /\ ~editor_only_region /\ amalgamated_defined
    /\ implementation = None
    /\ \E i, j, k \in DOMAIN out :
           /\ out[i].k = "editor_only" /\ is_undef_amalgamated(out[i].line)
           /\ out[j].k = "editor_only" /\ uses_implementation(out[j].line)
           /\ out[k].k = "editor_only" /\ is_included(out[k].line)
           /\ out[k].line.inc \in Range(editor_only_includes[Top])
           /\ Begins(out[k].line.inc) = {}

-----------------------------------------------------------------------------
(* C9 *)

\* C9: a run that has failed has not written the end-file annotation of the
\* root file.
C9_FailsClosed ==
    pc = "aborted" /\ files # <<>> => Ends(RootFile) = {}

-----------------------------------------------------------------------------
(* C10 *)

\* C10: the missing-dependency error names every required file that the
\* dependencies.h it reports does not include.
C10_ReportsEveryMissingFile ==
    err.kind = "missing_dependency" => err.set = MissingFiles(err.file)

-----------------------------------------------------------------------------
(* C11 *)

\* A file that is neither generic nor specific to an implementation.
Common(F) == ~is_generic(F) /\ path_implementation(F) = None

\* F was expanded at i, the flag was defined at j after that, and the first
\* include of F after the define is the output entry k.
FirstIncludeAfterDefine(F, i, j, k) ==
    /\ i < j /\ j < k
    /\ out[i].k = "begin_file" /\ out[i].file = F
    /\ out[j].k = "defining_amalgamated"
    /\ \/ out[k].k = "including" /\ out[k].file = F
       \/ out[k].k = "skipped_duplicate" /\ out[k].line.inc = F
    /\ \A n \in (j + 1)..(k - 1) :
           /\ ~(out[n].k = "including" /\ out[n].file = F)
           /\ ~(out[n].k = "skipped_duplicate" /\ out[n].line.inc = F)

\* C11, as claimed: the first include after a define of the flag of a common
\* file that was expanded before the define expands the file again.
C11_DefineOpensWindow ==
    \A F \in Paths : \A i, j, k \in DOMAIN out :
        Common(F) /\ FirstIncludeAfterDefine(F, i, j, k) => out[k].k = "including"

\* The flag was defined after F was expanded.
DefinedSinceExpanded(F) ==
    \E i \in Begins(F) : \E j \in DOMAIN out : i < j /\ out[j].k = "defining_amalgamated"

\* The step reads an #include line outside an editor-only region.
ReadsInclude ==
    ReadsLine /\ ~editor_only_region /\ ~is_ifndef_amalgamated(line') /\ is_included(line')

\* A define of the flag that takes effect empties
\* found_includes_per_amalgamation and leaves found_includes alone.
DefineKeepsFoundIncludes ==
    ReadsDefineAmalgamated /\ pc' = "writing" =>
        found_includes_per_amalgamation' = {} /\ found_includes' = found_includes

\* An include, from a file that may include it, of a common file that was
\* expanded before a define of the flag is skipped as a duplicate.
IncludeAfterDefineSkipped ==
    ReadsInclude /\ Common(line'.inc) /\ is_free_dependency(Top)
        /\ DefinedSinceExpanded(line'.inc) =>
        /\ pc' = "writing"
        /\ out' = Append(out, Out("skipped_duplicate", NoFile, None, None, line'))

\* C11, amended: a define of the flag empties found_includes_per_amalgamation
\* and nothing else; found_includes never loses a file, so every include
\* after a define of a common file that was expanded before the define is
\* replaced by a 'skipped duplicate' annotation.
C11_DefineKeepsFoundIncludes ==
    [][/\ invocation' = invocation => found_includes \subseteq found_includes'
       /\ DefineKeepsFoundIncludes
       /\ IncludeAfterDefineSkipped]_vars

C11_Witness ==
    \E F \in Paths : \E i, j, k \in DOMAIN out :
        /\ Common(F) /\ FirstIncludeAfterDefine(F, i, j, k)
        /\ out[k].k = "skipped_duplicate" /\ amalgamated_defined

-----------------------------------------------------------------------------
(* C12 *)

\* The step is the end of the loop of write_file for the file on top of the
\* include stack.
AtEndOfFile == pc = "writing" /\ ~ReadsLine

\* The step enters simdjson/builtin/begin.h with no implementation active and
\* the builtin region not active.
EntersBuiltinBegin ==
    /\ ReadsInclude /\ line'.inc = BUILTIN_BEGIN_H
    /\ implementation = None /\ ~builtin_implementation
    /\ Len(include_stack') > Len(include_stack)

BuiltinBeginEntered ==
    EntersBuiltinBegin =>
        builtin_implementation' /\ implementation' = SIMDJSON_BUILTIN_IMPLEMENTATION

BuiltinBeginCompletes ==
    AtEndOfFile /\ Top = BUILTIN_BEGIN_H /\ ~editor_only_region =>
        /\ pc' # "aborted"
        /\ builtin_implementation' /\ implementation' = SIMDJSON_BUILTIN_IMPLEMENTATION

BuiltinEndCompletes ==
    AtEndOfFile /\ Top = BUILTIN_END_H /\ ~editor_only_region
        /\ Ends(BUILTIN_BEGIN_H) # {} /\ implementation = None =>
        pc' # "aborted" /\ implementation' = None

\* C12: writing simdjson/builtin/begin.h while no implementation is active
\* and the builtin region is not active completes without aborting and leaves
\* builtin_implementation true and the implementation the builtin sentinel;
\* writing simdjson/builtin/end.h afterwards, with no implementation active
\* at its end, completes without aborting and leaves the implementation none.
C12_BuiltinRegion ==
    [][BuiltinBeginEntered /\ BuiltinBeginCompletes /\ BuiltinEndCompletes]_vars

-----------------------------------------------------------------------------
(* C13 *)

ConfigurationError == err.kind \in {"not_found", "exists_in_both"}

\* One record per path, each with the one configured root that holds the
\* path; a path that failed to resolve has no record.
RegistryIsSound ==
    /\ NoDuplicates(files)
    /\ \A p \in Paths :
           IF p \in Range(files)
           THEN /\ file_root[p] \in Range(relative_roots)
                /\ exists(file_root[p], p)
                /\ Resolves(p)
           ELSE file_root[p] = None
    /\ ConfigurationError => err.file \notin Range(files) /\ ~Resolves(err.file)

\* A record, once made, stays the record of its path.
RecordsKept ==
    invocation' = invocation =>
        /\ Len(files') >= Len(files)
        /\ \A i \in DOMAIN files :
               files'[i] = files[i] /\ file_root'[files[i]] = file_root[files[i]]

\* The lookup of the target of an #include line that zero or several
\* configured roots hold fails and makes no record.
UnresolvedLookupFails ==
    ReadsLine /\ is_included(line') /\ ~Resolves(line'.inc) =>
        /\ pc' = "aborted"
        /\ err'.kind = IF \E i \in DOMAIN relative_roots : exists(relative_roots[i], line'.inc)
                       THEN "exists_in_both" ELSE "not_found"
        /\ err'.file = line'.inc
        /\ line'.inc \notin Range(files')

\* C13: the registry holds at most one record per path, a record stays the
\* record of its path, its root is the only configured root that holds the
\* path, and a lookup of a path that zero or several configured roots hold
\* fails and leaves the registry without a record of the path.
C13_RegistrySound ==
    /\ []RegistryIsSound
    /\ [][RecordsKept /\ UnresolvedLookupFails]_vars

C13_Witness ==
    /\ pc = "aborted" /\ err.kind = "exists_in_both"
    /\ Len(files) >= 2 /\ err.file \notin Range(files)
    /\ \A i \in DOMAIN relative_roots : exists(relative_roots[i], err.file)

-----------------------------------------------------------------------------
(* C14 *)

\* Two invocations with the same root file and roots that have ended, ended
\* alike: the same output sequence and the same outcome.
Deterministic ==
    /\ \A i, j \in DOMAIN history :
           history[i].invocation = history[j].invocation =>
               /\ history[i].out = history[j].out
               /\ history[i].pc = history[j].pc
               /\ history[i].err.kind = history[j].err.kind
    /\ pc \in {"done", "aborted"} =>
           \A i \in DOMAIN history :
               history[i].invocation = invocation =>
                   /\ history[i].out = out
                   /\ history[i].pc = pc
                   /\ history[i].err.kind = err.kind

\* The step is a call of Amalgamator.amalgamate.
Invokes == invocation' = invocation + 1

\* After the call has entered its root file, nothing is in the state but what
\* the call itself put there.
StartsFresh ==
    Invokes =>
        LET root == Calls[invocation'].file
        IN  /\ relative_roots' = Calls[invocation'].roots
            /\ Range(files') \subseteq {root}
            /\ out'[1].k = "auto_generated"
            /\ \A i \in DOMAIN out' :
                   i > 1 => out'[i].k \in {"including", "begin_file"} /\ out'[i].file = root
            /\ found_includes' \subseteq {root}
            /\ found_includes_per_amalgamation' = {}
            /\ found_generic_includes' = <<>>
            /\ implementation' = None /\ ~builtin_implementation'
            /\ ~amalgamated_defined' /\ ~editor_only_region'
            /\ include_stack' \in {<<>>, <<root>>}
            /\ \A p \in Paths :
                   /\ includes'[p] = <<>> /\ included_from'[p] = {}
                   /\ editor_only_includes'[p] = <<>> /\ editor_only_included_from'[p] = {}
                   /\ processed'[p] \in (IF p = root THEN {None, "False"} ELSE {None})

-----------------------------------------------------------------------------
(* C15 *)

\* The paths the step looks up by name: the root file of a call, the target
\* of an #include line.
LookedUp ==
    IF Invokes THEN {Calls[invocation'].file}
    ELSE IF ReadsLine /\ is_included(line') THEN {line'.inc}
    ELSE {}

NewRecords == IF Invokes THEN Range(files') ELSE Range(files') \ Range(files)

\* C15: evaluating the classifier never aborts the run and creates no
\* record: a step adds no record but that of the path it looks up by name,
\* and a lookup fails only for that path.
C15_ClassifierPure ==
    [][/\ NewRecords \subseteq LookedUp
       /\ pc' = "aborted" /\ err'.kind \in {"not_found", "exists_in_both"}
              => err'.file \in LookedUp]_vars

-----------------------------------------------------------------------------
(* C16 *)

\* A begin marker in a file that is not amalgamated, or while a region is open.
MisplacedBeginAborts ==
    ReadsLine /\ is_ifndef_amalgamated(line')
        /\ (~is_amalgamated(Top) \/ editor_only_region) =>
        pc' = "aborted"

\* An end marker while no region is open.
MisplacedEndAborts ==
    ReadsLine /\ ~editor_only_region /\ is_end_ignore(line') => pc' = "aborted"

\* The end of a file while a region is open.
UnterminatedAborts ==
    AtEndOfFile /\ editor_only_region =>
        pc' = "aborted" /\ processed'[Top] # "True" /\ include_stack' = include_stack

\* No file is entered while a region is open, and no region is open when a
\* file has been written to its end.
RegionWithinOneFile ==
    /\ Len(include_stack') > Len(include_stack) => ~editor_only_region /\ ~editor_only_region'
    /\ AtEndOfFile /\ pc' # "aborted" => ~editor_only_region' /\ processed'[Top] = "True"

\* C16: a begin marker in a file that is not amalgamated aborts, a begin
\* marker while a region is open aborts, an end marker while no region is
\* open aborts, the end of a file with the region open aborts; no file is
\* entered while a region is open, and the region is closed whenever a file
\* has been completely written.
C16_MarkersPaired ==
    /\ [](editor_only_region => pc \in {"writing", "aborted"})
    /\ [][MisplacedBeginAborts /\ MisplacedEndAborts /\ UnterminatedAborts
              /\ RegionWithinOneFile]_vars

C16_Witness ==
    /\ pc = "aborted" /\ err.kind = "ended_without_endif" /\ editor_only_region
    /\ err.file = Top /\ Top \in closed /\ processed[Top] = "False"

\* The other three misuses are met as well.
C16_BeginOutsideAmalgamatedFile ==
    pc = "aborted" /\ err.kind = "ifndef_not_amalgamated" /\ ~is_amalgamated(Top)
C16_BeginTwice == pc = "aborted" /\ err.kind = "ifndef_twice" /\ editor_only_region
C16_EndWithoutBegin == pc = "aborted" /\ err.kind = "endif_without_ifndef"

-----------------------------------------------------------------------------
(* C17 *)

\* The step reads a define / an undef of the implementation outside an
\* editor-only region.
ReadsDefineImplementation ==
    ReadsLine /\ ~editor_only_region /\ is_define_implementation(line')
ReadsUndefImplementation ==
    ReadsLine /\ ~editor_only_region /\ is_undef_implementation(line')

\* The annotation of a define of the implementation to v.
DefineAnnotation(v) ==
    IF implementation = None
    THEN Out("defining_implementation", NoFile, v, None, NoLine)
    ELSE Out("redefining_implementation", NoFile, v, implementation, NoLine)

DefineImplementationTakesEffect ==
    ReadsDefineImplementation =>
        /\ pc' = "writing"
        /\ implementation' = line'.toks[3]
        /\ Len(out') > Len(out)
        /\ SubSeq(out', 1, Len(out) + 1) = Append(out, DefineAnnotation(line'.toks[3]))

UndefImplementationTakesEffect ==
    ReadsUndefImplementation => pc' = "writing" /\ implementation' = None

\* C17: a define of the implementation outside an editor-only region never
\* aborts, sets the implementation to the value of the directive and emits a
\* 'defining' annotation when none was active and a 'redefining from the
\* previous to the new' annotation otherwise; an undef never aborts, also
\* when no implementation is active, and leaves the implementation none.
C17_ImplementationDirectives ==
    [][DefineImplementationTakesEffect /\ UndefImplementationTakesEffect]_vars

\* An implementation was redefined, and an undef was read while none was active.
C17_Witness ==
    /\ pc = "writing" /\ implementation = None /\ ~editor_only_region
    /\ is_undef_implementation(line)
    /\ \E i, j \in DOMAIN out :
           /\ i < j /\ j < Len(out) - 1
           /\ out[i].k = "redefining_implementation" /\ out[i].old # out[i].impl
           /\ out[j].k = "undefining_implementation"
    /\ out[Len(out) - 1] = Out("undefining_implementation", NoFile, None, None, NoLine)

-----------------------------------------------------------------------------
(* C18 *)

\* includes and included_from, and the editor-only relations, are inverses.
RelationsInverse ==
    \A A, B \in Paths :
        /\ B \in Range(includes[A]) <=> A \in included_from[B]
        /\ B \in Range(editor_only_includes[A]) <=> A \in editor_only_included_from[B]

\* The step failed in the lookup of the target or in the legality check.
RejectedInclude ==
    /\ pc' = "aborted"
    /\ err'.kind \in {"not_found", "exists_in_both",
                      "cannot_include_amalgamated", "cannot_include_free_dependency"}

\* An include outside an editor-only region that passes the legality check
\* appends one entry to the includes of the including file, whether the
\* target is then expanded, skipped as a duplicate or refused by the writer.
IncludeRecorded ==
    ReadsInclude /\ ~RejectedInclude =>
        /\ includes'[Top] = Append(includes[Top], line'.inc)
        /\ \A p \in Paths \ {Top} : includes'[p] = includes[p]
        /\ out' = Append(out, Out("skipped_duplicate", NoFile, None, None, line'))
               => pc' = "writing"

\* C18: B occurs in A.includes if and only if A is in B.included_from, and
\* likewise for the editor-only relations; each include directive outside an
\* editor-only region that passes the legality check appends exactly one
\* entry to the includes of the including file, so an include that is skipped
\* as a duplicate is recorded too.
C18_RelationsInverse ==
    /\ []RelationsInverse
    /\ [][IncludeRecorded]_vars

\* An include was skipped as a duplicate and recorded a second time.
C18_Witness ==
    /\ pc = "writing" /\ out # <<>> /\ Last(out).k = "skipped_duplicate"
    /\ Last(out).line = line
    /\ Cardinality({i \in DOMAIN includes[Top] : includes[Top][i] = line.inc}) = 2
    /\ Top \in included_from[line.inc]

-----------------------------------------------------------------------------
(* C19 *)

\* C19: an undef of the implementation outside an editor-only region is not
\* copied to the output: the 'undefining' annotation is all the step emits.
C19_UndefNotCopied ==
    [][ReadsUndefImplementation =>
           out' = Append(out, Out("undefining_implementation", NoFile, None,
                                  implementation, NoLine))]_vars

-----------------------------------------------------------------------------
(* C20 *)

UnnecessaryIncludesError(D) ==
    /\ pc = "aborted" /\ err.kind = "unnecessarily_includes"
    /\ err.file = D /\ err.set = ExtraFiles(D)

\* Validation passes only when every dependencies.h includes the required
\* files exactly.
PassesOnlyWhenExact ==
    pc = "done" => \A D \in Aggregators : Range(includes[D]) = RequiredFiles(D)

\* C20, as claimed: validation passes only when the includes of every
\* dependencies.h are the required files exactly, and a dependencies.h D that
\* includes a file that is not required makes validation fail with the error
\* that names D and its unnecessary includes.
C20_ExtraIsReported ==
    /\ PassesOnlyWhenExact
    /\ \A D \in Aggregators :
           ValidationRan /\ ExtraFiles(D) # {} => UnnecessaryIncludesError(D)

\* C20, amended: the same, for the first dependencies.h of the registry that
\* fails the validator's checks, when it misses no required file.
C20_FirstExtraIsReported ==
    /\ PassesOnlyWhenExact
    /\ ValidationRan =>
           \A D \in Aggregators :
               ExtraFiles(D) # {} /\ FirstToFail(D) /\ MissingFiles(D) = {}
                   => UnnecessaryIncludesError(D)
    /\ ValidationRan => \A D \in Aggregators : ExtraFiles(D) # {} => pc = "aborted"

C20_Witness ==
    \E D \in Aggregators :
        /\ ValidationRan /\ UnnecessaryIncludesError(D)
        /\ MissingFiles(D) = {} /\ ExtraFiles(D) # {}

-----------------------------------------------------------------------------
(* C21 *)

\* While a region is open SIMDJSON_AMALGAMATED is defined and the file being
\* written is an amalgamated file.
OpenRegionIsGuarded ==
    editor_only_region =>
        amalgamated_defined /\ include_stack # <<>> /\ is_amalgamated(Top)

\* A begin marker read while the flag is not defined ends the run and opens
\* no region.
BeginWithoutFlagAborts ==
    ReadsLine /\ is_ifndef_amalgamated(line') /\ ~amalgamated_defined =>
        pc' = "aborted" /\ ~editor_only_region'

\* A step taken while a region is open leaves the flag defined and the
\* include stack as it is.
FlagKeptWhileOpen ==
    editor_only_region => amalgamated_defined' /\ include_stack' = include_stack

\* C21: in every state of a run, an open editor-only region implies that
\* SIMDJSON_AMALGAMATED is defined and that the file on top of the include
\* stack is an amalgamated file; a begin marker read while the flag is not
\* defined aborts the run, and no step taken while the region is open
\* undefines the flag or changes the file being written.
C21_OpenRegionGuarded ==
    /\ []OpenRegionIsGuarded
    /\ [][BeginWithoutFlagAborts /\ FlagKeptWhileOpen]_vars

\* A region is open in an included file and the line just read inside it is
\* an #undef SIMDJSON_AMALGAMATED: the flag is still defined.
C21_Witness ==
    /\ pc = "writing" /\ editor_only_region /\ amalgamated_defined
    /\ Len(include_stack) > 1 /\ is_amalgamated(Top)
    /\ line_no[Len(line_no)] >= 2
    /\ out[Len(out)].k = "editor_only" /\ is_undef_amalgamated(out[Len(out)].line)

\* The abort of a begin marker that comes before the define is met as well.
C21_BeginBeforeDefine ==
    /\ pc = "aborted" /\ err.kind = "ifndef_without_define"
    /\ ~editor_only_region /\ ~amalgamated_defined /\ is_amalgamated(Top)

====
